---- MODULE Spec2Model ----
(***************************************************************************)
(* Model of the fynesse scaffold: access.data, assess.data, the three      *)
(* unimplemented members of assess, and the two copies of plot_city_map    *)
(* (access.py and assess.py).                                              *)
(*                                                                         *)
(* Python floats are modelled as binary floating point numbers with a      *)
(* Prec-bit significand and round-to-nearest-even, value m * 2^e, kept in  *)
(* the canonical form <<m, e>> with m odd (or <<0, 0>>).  The exponent is  *)
(* unbounded: overflow and underflow play no part in the bounding box.     *)
(***************************************************************************)
EXTENDS Integers, Sequences, FiniteSets, TLC

\* ------------------------------------------------------------------ bounds
Prec == 7          \* significand bits of the modelled float (53 in CPython)
MaxRows == 3       \* rows of data.csv
NCols == 2         \* columns of data.csv

\* ------------------------------------------------------- float arithmetic
RECURSIVE Pow2(_)
Pow2(n) == IF n <= 0 THEN 1 ELSE 2 * Pow2(n - 1)

Abs(x) == IF x < 0 THEN -x ELSE x
Sgn(x) == IF x < 0 THEN -1 ELSE 1

RECURSIVE BitLen(_)
BitLen(n) == IF n = 0 THEN 0 ELSE 1 + BitLen(n \div 2)

\* canonical form of m * 2^e
RECURSIVE Norm(_, _)
Norm(m, e) == IF m = 0 THEN <<0, 0>>
              ELSE IF m % 2 = 0 THEN Norm(m \div 2, e + 1)
              ELSE <<m, e>>

\* M * 2^e (plus a non-zero discarded tail when sticky) rounded to Prec bits,
\* ties to even
RoundSticky(M, e, sticky) ==
    LET a == Abs(M)
        k == IF BitLen(a) > Prec THEN BitLen(a) - Prec ELSE 0
        q == a \div Pow2(k)
        r == a % Pow2(k)
        half == Pow2(k - 1)
        up == IF k = 0 THEN FALSE
              ELSE \/ r > half
                   \/ r = half /\ sticky
                   \/ r = half /\ ~sticky /\ q % 2 = 1
        m == IF up THEN q + 1 ELSE q
    IN Norm(Sgn(M) * m, e + k)

Fl(m, e) == RoundSticky(m, e, FALSE)

\* exact (unrounded) sum, difference and product of two dyadic numbers
XAdd(x, y) ==
    LET e == IF x[2] < y[2] THEN x[2] ELSE y[2]
    IN Norm(x[1] * Pow2(x[2] - e) + y[1] * Pow2(y[2] - e), e)
FNeg(x) == <<-x[1], x[2]>>
XSub(x, y) == XAdd(x, FNeg(y))
XMul(x, y) == Norm(x[1] * y[1], x[2] + y[2])
XAbs(x) == <<Abs(x[1]), x[2]>>

\* Python's float +, - and *: the exact result, rounded
FAdd(x, y) == RoundSticky(XAdd(x, y)[1], XAdd(x, y)[2], FALSE)
FSub(x, y) == FAdd(x, FNeg(y))
FMul(x, y) == RoundSticky(XMul(x, y)[1], XMul(x, y)[2], FALSE)

\* x / y for y # 0 (Python raises ZeroDivisionError otherwise)
FDiv(x, y) ==
    LET s == 2 * Prec + 1
        n == Abs(x[1]) * Pow2(s)
        d == Abs(y[1])
        q == n \div d
        r == n % d
    IN RoundSticky(Sgn(x[1]) * Sgn(y[1]) * q, x[2] - y[2] - s, r # 0)

\* exact comparisons of two floats
FLess(x, y) ==
    LET e == IF x[2] < y[2] THEN x[2] ELSE y[2]
    IN x[1] * Pow2(x[2] - e) < y[1] * Pow2(y[2] - e)
FLeq(x, y) == x = y \/ FLess(x, y)

\* spacing of the floats around x (0 for x = 0)
Ulp(x) == IF x[1] = 0 THEN <<0, 0>>
          ELSE Norm(1, x[2] + BitLen(Abs(x[1])) - Prec)

F0 == <<0, 0>>
F2 == <<1, 1>>
F111 == Fl(111, 0)

\* ------------------------------------------------------------ data model
\* Python values a call can yield: None, a DataFrame (its rows in order), or
\* no value at all (the call has not returned, or it raised)
None == [tag |-> "None", rows |-> <<>>]
NoValue == [tag |-> "NoValue", rows |-> <<>>]
DataFrame(t) == [tag |-> "DataFrame", rows |-> t]
NaN == "NaN"
NoExc == "NoExc"              \* no exception is in flight / propagated

Cells == {NaN, "x", "y"}
RowsOf == [1..NCols -> Cells]
Tables == UNION {[1..n -> RowsOf] : n \in 0..MaxRows}

\* what pd.read_csv("data.csv") finds on disk
Files == {[kind |-> "absent", table |-> <<>>], [kind |-> "corrupt", table |-> <<>>]}
         \cup {[kind |-> "ok", table |-> t] : t \in Tables}

\* inputs of plot_city_map
NoText == "-"
Places == {"Nyeri", "Nowhere"}
Latitudes == {Fl(0, 0), Fl(60, 0), Fl(-127, -3), Fl(120, 0)}
Longitudes == {Fl(0, 0), Fl(127, -3), Fl(-3, 0), Fl(100, 0)}
BoxSizes == {Fl(2, 0), Fl(100, 0), Fl(222, 0), Fl(0, 0), Fl(-2, 0)}
\* tags=None, or a caller-supplied dict (its keys; every value is True)
NoTags == [given |-> FALSE, keys |-> {}]
TagSets == {NoTags, [given |-> TRUE, keys |-> {"amenity"}],
            [given |-> TRUE, keys |-> {"building"}]}

VARIABLES pc, entry, file, df, accessRet, missing_counts, ret, raised, exc,
          out, trace, args, bbox, pois, queries

vars == <<pc, entry, file, df, accessRet, missing_counts, ret, raised, exc,
          out, trace, args, bbox, pois, queries>>

\* an entry of the execution record: the statement run, and whether it
\* completed (TRUE) or raised (FALSE)
Ev(op, ok) == [op |-> op, ok |-> ok]

NoArgs == [module |-> NoText, place_name |-> NoText, latitude |-> F0,
           longitude |-> F0, box_size_km |-> F0, tags |-> NoTags]
NoBox == [west |-> F0, south |-> F0, east |-> F0, north |-> F0]

Init ==
    /\ pc = "idle"
    /\ entry = NoText
    /\ file = [kind |-> "absent", table |-> <<>>]
    /\ df = None
    /\ accessRet = NoValue
    /\ missing_counts = <<>>
    /\ ret = NoValue
    /\ raised = NoExc
    /\ exc = NoExc
    /\ out = <<>>
    /\ trace = <<>>
    /\ args = NoArgs
    /\ bbox = NoBox
    /\ pois = NoText
    /\ queries = <<>>

\* ------------------------------------------------------------ access.data
\* df.empty for a table with NCols >= 1 columns
Empty(t) == Len(t) = 0

\* the two except clauses of access.data: what is printed, what is returned,
\* what leaves the function as an exception
\* mutant: only FileNotFoundError is handled
AccessHandler_reraise(e) ==
    IF e = "FileNotFoundError"
    THEN [ret |-> None, raised |-> NoExc,
          out |-> [text |-> "Error: Could not find data.csv file. Please check the file path.",
                   vals |-> <<>>]]
    ELSE [ret |-> NoValue, raised |-> e, out |-> [text |-> NoText, vals |-> <<>>]]

AccessHandler(e) ==
    IF e = "FileNotFoundError"
    THEN [ret |-> None, raised |-> NoExc,
          out |-> [text |-> "Error: Could not find data.csv file. Please check the file path.",
                   vals |-> <<>>]]
    ELSE [ret |-> None, raised |-> NoExc,
          out |-> [text |-> "Error loading data: {e}", vals |-> <<e>>]]

\* df.empty check and the two returns of the try body
AccessValidate(d) == IF Empty(d.rows) THEN None ELSE d

CallAccessData(f) ==
    /\ pc = "idle"
    /\ entry' = "access.data"
    /\ file' = f
    /\ pc' = "access_read"
    /\ UNCHANGED <<df, accessRet, missing_counts, ret, raised, exc, out, trace,
                   args, bbox, pois, queries>>

\* assess.data starts by calling access.data()
CallAssessData(f) ==
    /\ pc = "idle"
    /\ entry' = "assess.data"
    /\ file' = f
    /\ pc' = "access_read"
    /\ UNCHANGED <<df, accessRet, missing_counts, ret, raised, exc, out, trace,
                   args, bbox, pois, queries>>

\* df = pd.read_csv("data.csv")
AccessRead ==
    /\ pc = "access_read"
    /\ IF file.kind = "ok"
       THEN /\ df' = DataFrame(file.table)
            /\ pc' = "access_validate"
            /\ exc' = exc
       ELSE /\ exc' = IF file.kind = "absent" THEN "FileNotFoundError" ELSE "ParserError"
            /\ pc' = "access_except"
            /\ df' = df
    /\ trace' = Append(trace, Ev("read_csv", file.kind = "ok"))
    /\ UNCHANGED <<entry, file, accessRet, missing_counts, ret, raised, out,
                   args, bbox, pois, queries>>

\* where access.data's result goes: to the caller, or back into assess.data
AccessReturnTo(r, x) ==
    IF entry = "access.data"
    THEN /\ pc' = "done"
         /\ ret' = IF x = NoExc THEN r ELSE NoValue
         /\ raised' = x
    ELSE /\ pc' = IF x = NoExc THEN "assess_check" ELSE "done"
         /\ ret' = ret
         /\ raised' = x

AccessCheckEmpty ==
    /\ pc = "access_validate"
    /\ accessRet' = AccessValidate(df)
    /\ AccessReturnTo(AccessValidate(df), NoExc)
    /\ UNCHANGED <<entry, file, df, missing_counts, exc, out, trace, args, bbox, pois, queries>>

AccessExcept ==
    /\ pc = "access_except"
    /\ LET h == AccessHandler(exc) IN
        /\ out' = Append(out, h.out)
        /\ accessRet' = IF h.raised = NoExc THEN h.ret ELSE NoValue
        /\ AccessReturnTo(h.ret, h.raised)
    /\ exc' = NoExc
    /\ UNCHANGED <<entry, file, df, missing_counts, trace, args, bbox, pois, queries>>

\* ------------------------------------------------------------ assess.data
IsNull(c) == c = NaN
AllNull(row) == \A c \in 1..NCols : IsNull(row[c])

\* df.isnull().sum(): missing cells per column
RECURSIVE NullsInColumn(_, _)
NullsInColumn(t, c) ==
    IF Len(t) = 0 THEN 0
    ELSE (IF IsNull(Head(t)[c]) THEN 1 ELSE 0) + NullsInColumn(Tail(t), c)
IsNullSum(t) == [c \in 1..NCols |-> NullsInColumn(t, c)]

RECURSIVE SumSeq(_)
SumSeq(q) == IF Len(q) = 0 THEN 0 ELSE Head(q) + SumSeq(Tail(q))

\* mutant: dropna(how="any")
RECURSIVE DropNaAll_any(_)
DropNaAll_any(t) ==
    IF Len(t) = 0 THEN <<>>
    ELSE IF \E c \in 1..NCols : IsNull(Head(t)[c]) THEN DropNaAll_any(Tail(t))
    ELSE <<Head(t)>> \o DropNaAll_any(Tail(t))

\* df.dropna(how="all")
RECURSIVE DropNaAll(_)
DropNaAll(t) ==
    IF Len(t) = 0 THEN <<>>
    ELSE IF AllNull(Head(t)) THEN DropNaAll(Tail(t))
    ELSE <<Head(t)>> \o DropNaAll(Tail(t))

\* mutant: the None check is missing
IsNone_never(d) == FALSE

\* the test `df is None` on what access.data() returned
IsNone(d) == d = None

\* mutant: an empty cleaned table is reported as None
AssessReturn_noneIfEmpty(cleaned) == IF Len(cleaned) = 0 THEN None ELSE DataFrame(cleaned)

\* return df_cleaned
AssessReturn(cleaned) == DataFrame(cleaned)

\* if df is None: ... return None
AssessCheckNone ==
    /\ pc = "assess_check"
    /\ IF IsNone(accessRet)
       THEN /\ out' = Append(out, [text |-> "Error: Could not load data from access module",
                                    vals |-> <<>>])
            /\ ret' = None
            /\ pc' = "done"
       ELSE /\ pc' = "assess_missing"
            /\ UNCHANGED <<out, ret>>
    /\ UNCHANGED <<entry, file, df, accessRet, missing_counts, raised, exc, trace,
                   args, bbox, pois, queries>>

\* missing_counts = df.isnull().sum(), reported when anything is missing
AssessMissing ==
    /\ pc = "assess_missing"
    /\ missing_counts' = IsNullSum(accessRet.rows)
    /\ out' = IF SumSeq(IsNullSum(accessRet.rows)) > 0
              THEN Append(out, [text |-> "Missing values found: {n} total",
                                vals |-> <<SumSeq(IsNullSum(accessRet.rows))>>])
              ELSE out
    /\ trace' = Append(trace, Ev("isnull.sum", TRUE))
    /\ pc' = "assess_dropna"
    /\ UNCHANGED <<entry, file, df, accessRet, ret, raised, exc, args, bbox, pois, queries>>

\* df_cleaned = df.dropna(how="all"); return df_cleaned
AssessDropna ==
    /\ pc = "assess_dropna"
    /\ ret' = AssessReturn(DropNaAll(accessRet.rows))
    /\ trace' = Append(trace, Ev("dropna", TRUE))
    /\ pc' = "done"
    /\ UNCHANGED <<entry, file, df, accessRet, missing_counts, raised, exc, out,
                   args, bbox, pois, queries>>

\* a statement of the try body raises
AssessRaise ==
    /\ pc \in {"assess_missing", "assess_dropna"}
    /\ exc' = "Exception"
    /\ trace' = Append(trace, Ev(IF pc = "assess_missing" THEN "isnull.sum" ELSE "dropna", FALSE))
    /\ pc' = "assess_except"
    /\ UNCHANGED <<entry, file, df, accessRet, missing_counts, ret, raised, out,
                   args, bbox, pois, queries>>

\* except Exception as e: ... return None
AssessExcept ==
    /\ pc = "assess_except"
    /\ out' = Append(out, [text |-> "Error assessing data: {e}", vals |-> <<exc>>])
    /\ ret' = None
    /\ exc' = NoExc
    /\ pc' = "done"
    /\ UNCHANGED <<entry, file, df, accessRet, missing_counts, raised, trace,
                   args, bbox, pois, queries>>

\* ------------------------------------------------ query, view, labelled
query(data) == [raised |-> "NotImplementedError", value |-> NoValue]
\* mutant: the body is `pass`
view_pass(data) == [raised |-> NoExc, value |-> None]
view(data) == [raised |-> "NotImplementedError", value |-> NoValue]
labelled(data) == [raised |-> "NotImplementedError", value |-> NoValue]

StubArgs == {None} \cup {DataFrame(t) : t \in {u \in Tables : Len(u) <= 1}}

CallStub(fn, data) ==
    /\ pc = "idle"
    /\ entry' = fn
    /\ LET r == CASE fn = "query" -> query(data)
                  [] fn = "view" -> view(data)
                  [] fn = "labelled" -> labelled(data)
       IN /\ raised' = r.raised
          /\ ret' = r.value
    /\ df' = data
    /\ pc' = "done"
    /\ UNCHANGED <<file, accessRet, missing_counts, exc, out, trace, args, bbox, pois, queries>>

\* ---------------------------------------------------------- plot_city_map
\* math.cos(math.radians(latitude)) on the latitudes of the model, rounded to
\* the float format; as in libm the results for 60 and 120 degrees are close
\* to, not equal to, 1/2 (0.5000000000000001 and -0.4999999999999998)
CosRadians(latitude) ==
    CASE latitude = Fl(0, 0) -> Fl(1, 0)
      [] latitude = Fl(60, 0) -> Fl(Pow2(Prec - 1) + 1, -Prec)
      [] latitude = Fl(-127, -3) -> Fl(63036, -16)
      [] latitude = Fl(120, 0) -> Fl(-(Pow2(Prec) - 1), -(Prec + 1))

lat_degree_size(box_size_km) == FDiv(box_size_km, F111)

\* access.py divides by 111.0, assess.py by 111.0 * cos(radians(latitude))
lon_degree_size(module, latitude, box_size_km) ==
    IF module = "access"
    THEN FDiv(box_size_km, F111)
    ELSE FDiv(box_size_km, FMul(F111, CosRadians(latitude)))

\* mutant: the west and south offsets are not halved
BBox_offcentre(module, latitude, longitude, box_size_km) ==
    [west  |-> FSub(longitude, lon_degree_size(module, latitude, box_size_km)),
     south |-> FSub(latitude, lat_degree_size(box_size_km)),
     east  |-> FAdd(longitude, FDiv(lon_degree_size(module, latitude, box_size_km), F2)),
     north |-> FAdd(latitude, FDiv(lat_degree_size(box_size_km), F2))]

\* mutant: north and south are exchanged
BBox_swapped(module, latitude, longitude, box_size_km) ==
    [west  |-> FSub(longitude, FDiv(lon_degree_size(module, latitude, box_size_km), F2)),
     south |-> FAdd(latitude, FDiv(lat_degree_size(box_size_km), F2)),
     east  |-> FAdd(longitude, FDiv(lon_degree_size(module, latitude, box_size_km), F2)),
     north |-> FSub(latitude, FDiv(lat_degree_size(box_size_km), F2))]

BBox(module, latitude, longitude, box_size_km) ==
    [west  |-> FSub(longitude, FDiv(lon_degree_size(module, latitude, box_size_km), F2)),
     south |-> FSub(latitude, FDiv(lat_degree_size(box_size_km), F2)),
     east  |-> FAdd(longitude, FDiv(lon_degree_size(module, latitude, box_size_km), F2)),
     north |-> FAdd(latitude, FDiv(lat_degree_size(box_size_km), F2))]

DefaultTags == {"amenity", "buildings", "historic", "leisure", "shop", "tourism",
                "religion", "memorial"}

\* the statements of the try body, in program order
TryBody == <<"graph_from_bbox", "geocode_to_gdf", "graph_to_gdfs",
             "features_from_bbox(buildings)", "features_from_bbox(pois)",
             "subplots", "area.plot", "buildings.plot", "edges.plot",
             "nodes.plot", "pois.plot", "set_xlim", "set_ylim", "set_title",
             "show">>
FetchSteps == {"graph_from_bbox", "geocode_to_gdf", "features_from_bbox(buildings)",
               "features_from_bbox(pois)"}
RenderSteps == {"subplots", "area.plot", "buildings.plot", "edges.plot", "nodes.plot",
                "pois.plot", "set_xlim", "set_ylim", "set_title", "show"}
TrySteps == {TryBody[i] : i \in 1..Len(TryBody)}

IndexOf(step) == CHOOSE i \in 1..Len(TryBody) : TryBody[i] = step

\* mutant: the figure is started before the points of interest are fetched
NextStep_skipPois(step, poisResult) ==
    LET i == IndexOf(step)
        j == IF TryBody[i] = "nodes.plot" THEN i + 2
             ELSE IF TryBody[i] = "features_from_bbox(buildings)" THEN i + 2
             ELSE i + 1
    IN IF i = Len(TryBody) THEN "done" ELSE TryBody[j]

\* the statement executed after step; pois.plot only if not pois.empty
NextStep(step, poisResult) ==
    LET i == IndexOf(step)
        j == IF TryBody[i] = "nodes.plot" /\ poisResult = "empty" THEN i + 2 ELSE i + 1
    IN IF i = Len(TryBody) THEN "done" ELSE TryBody[j]

\* the request a fetch statement sends to the provider
Query(step, box, a) ==
    CASE step = "graph_from_bbox" ->
           [fn |-> "graph_from_bbox", bbox |-> box, place |-> NoText, tags |-> {}]
      [] step = "geocode_to_gdf" ->
           [fn |-> "geocode_to_gdf", bbox |-> NoBox, place |-> a.place_name, tags |-> {}]
      [] step = "features_from_bbox(buildings)" ->
           [fn |-> "features_from_bbox", bbox |-> box, place |-> NoText,
            tags |-> {"building"}]
      [] step = "features_from_bbox(pois)" ->
           [fn |-> "features_from_bbox", bbox |-> box, place |-> NoText,
            tags |-> IF a.tags.given THEN a.tags.keys ELSE DefaultTags]

\* mutant: only the exception text is printed
PlotHandler_short(e, a) ==
    [raised |-> NoExc,
     out |-> <<[text |-> "An error occurred while plotting the map: {e}", vals |-> <<e>>]>>]

\* the except clause of plot_city_map: the two printed lines, and what leaves
\* the function
PlotHandler(e, a) ==
    [raised |-> NoExc,
     out |-> <<[text |-> "An error occurred while plotting the map: {e}", vals |-> <<e>>],
               [text |-> "Could not plot map for {place_name} at ({latitude}, {longitude}) with box size {box_size_km} km.",
                vals |-> <<a.place_name, a.latitude, a.longitude, a.box_size_km>>]>>]

\* the call, and the bounding box built before the try block
CallPlot(module, place_name, latitude, longitude, box_size_km, tags) ==
    /\ pc = "idle"
    /\ entry' = "plot_city_map"
    /\ args' = [module |-> module, place_name |-> place_name, latitude |-> latitude,
                longitude |-> longitude, box_size_km |-> box_size_km, tags |-> tags]
    /\ bbox' = BBox(module, latitude, longitude, box_size_km)
    /\ trace' = Append(trace, Ev("bbox", TRUE))
    /\ pc' = TryBody[1]
    /\ UNCHANGED <<file, df, accessRet, missing_counts, ret, raised, exc, out, pois,
                   queries>>

\* one of the four provider calls succeeds
Fetch(result) ==
    /\ pc \in FetchSteps
    /\ queries' = Append(queries, Query(pc, bbox, args))
    /\ trace' = Append(trace, Ev(pc, TRUE))
    /\ pois' = IF pc = "features_from_bbox(pois)" THEN result ELSE pois
    /\ pc' = NextStep(pc, pois')
    /\ UNCHANGED <<entry, file, df, accessRet, missing_counts, ret, raised, exc, out,
                   args, bbox>>

\* nodes, edges = ox.graph_to_gdfs(graph)
GraphToGdfs ==
    /\ pc = "graph_to_gdfs"
    /\ trace' = Append(trace, Ev(pc, TRUE))
    /\ pc' = NextStep(pc, pois)
    /\ UNCHANGED <<entry, file, df, accessRet, missing_counts, ret, raised, exc, out,
                   args, bbox, pois, queries>>

\* one statement of the rendering block; plt.show() is the last one
Render ==
    /\ pc \in RenderSteps
    /\ trace' = Append(trace, Ev(pc, TRUE))
    /\ pc' = NextStep(pc, pois)
    /\ ret' = IF pc' = "done" THEN None ELSE ret
    /\ UNCHANGED <<entry, file, df, accessRet, missing_counts, raised, exc, out,
                   args, bbox, pois, queries>>

\* the statement at pc raises; a provider call has sent its request by then
PlotRaise ==
    /\ pc \in TrySteps
    /\ queries' = IF pc \in FetchSteps THEN Append(queries, Query(pc, bbox, args))
                  ELSE queries
    /\ trace' = Append(trace, Ev(pc, FALSE))
    /\ exc' = "Exception"
    /\ pc' = "plot_except"
    /\ UNCHANGED <<entry, file, df, accessRet, missing_counts, ret, raised, out,
                   args, bbox, pois>>

PlotExcept ==
    /\ pc = "plot_except"
    /\ LET h == PlotHandler(exc, args) IN
        /\ out' = out \o h.out
        /\ raised' = h.raised
        /\ ret' = IF h.raised = NoExc THEN None ELSE NoValue
    /\ exc' = NoExc
    /\ pc' = "done"
    /\ UNCHANGED <<entry, file, df, accessRet, missing_counts, trace, args, bbox,
                   pois, queries>>

\* the caller goes on to its next call
Return ==
    /\ pc = "done"
    /\ pc' = "idle"
    /\ entry' = NoText
    /\ file' = [kind |-> "absent", table |-> <<>>]
    /\ df' = None
    /\ accessRet' = NoValue
    /\ missing_counts' = <<>>
    /\ ret' = NoValue
    /\ raised' = NoExc
    /\ exc' = NoExc
    /\ out' = <<>>
    /\ trace' = <<>>
    /\ args' = NoArgs
    /\ bbox' = NoBox
    /\ pois' = NoText
    /\ queries' = <<>>

Next ==
    \/ \E f \in Files : CallAccessData(f)
    \/ \E f \in Files : CallAssessData(f)
    \/ AccessRead
    \/ AccessCheckEmpty
    \/ AccessExcept
    \/ AssessCheckNone
    \/ AssessMissing
    \/ AssessDropna
    \/ AssessRaise
    \/ AssessExcept
    \/ \E fn \in {"query", "view", "labelled"}, d \in StubArgs : CallStub(fn, d)
    \/ \E m \in {"access", "assess"}, p \in Places, la \in Latitudes,
          lo \in Longitudes, s \in BoxSizes, t \in TagSets : CallPlot(m, p, la, lo, s, t)
    \/ \E r \in {"empty", "nonempty"} : Fetch(r)
    \/ GraphToGdfs
    \/ Render
    \/ PlotRaise
    \/ PlotExcept
    \/ Return

Spec == Init /\ [][Next]_vars

TypeOK ==
    /\ pc \in {"idle", "done", "access_read", "access_validate", "access_except",
               "assess_check", "assess_missing", "assess_dropna", "assess_except",
               "plot_except"} \cup TrySteps
    /\ entry \in {NoText, "access.data", "assess.data", "query", "view", "labelled",
                  "plot_city_map"}
    /\ raised \in {NoExc, "NotImplementedError", "FileNotFoundError", "ParserError",
                   "Exception"}

\* ================================================================ claims
Failed(ops) == \E i \in 1..Len(trace) : trace[i].op \in ops /\ ~trace[i].ok
Ran(ops) == \E i \in 1..Len(trace) : trace[i].op \in ops
AssessSteps == {"isnull.sum", "dropna"}

\* the rows of t with at least one non-null cell, in their order in t
NonNullIdx(t) == {i \in 1..Len(t) : \E c \in 1..NCols : t[i][c] # NaN}
KeptRows(t) ==
    [k \in 1..Cardinality(NonNullIdx(t)) |->
        t[CHOOSE i \in NonNullIdx(t) : Cardinality({j \in NonNullIdx(t) : j < i}) = k - 1]]

AssessDone == pc = "done" /\ entry = "assess.data"

C2_NonePassedThrough ==
    (entry = "assess.data" /\ accessRet = None) =>
        /\ ~Ran(AssessSteps)
        /\ missing_counts = <<>>
        /\ pc \in {"assess_check", "done"}
        /\ pc = "done" => (ret = None /\ raised = NoExc)

C2_Witness ==
    /\ AssessDone
    /\ accessRet = None
    /\ file.kind = "ok"
    /\ ret = None

\* what access.data() must hand back for the file it found
AccessExpected(f) ==
    IF f.kind = "ok" /\ Len(f.table) > 0 THEN DataFrame(f.table) ELSE None

AccessFinished ==
    \/ pc = "done" /\ entry = "access.data"
    \/ entry = "assess.data" /\ pc \notin {"access_read", "access_validate", "access_except"}

\* C3: access.data() never lets an exception out; it returns None for a
\* missing file, a table without rows and any other read failure, and the
\* loaded table only when the read succeeded and the table has rows.
C3_AccessNeverRaises ==
    AccessFinished =>
        /\ raised = NoExc
        /\ accessRet = AccessExpected(file)
        /\ entry = "access.data" => ret = AccessExpected(file)

C3_Witness ==
    /\ pc = "done"
    /\ entry = "access.data"
    /\ file.kind = "corrupt"
    /\ ret = None
    /\ raised = NoExc

\* C8: query, view and labelled always signal NotImplementedError and never
\* return a value, whatever the argument.
C8_StubsNotImplemented ==
    (pc = "done" /\ entry \in {"query", "view", "labelled"}) =>
        /\ raised = "NotImplementedError"
        /\ ret = NoValue

C8_Witness ==
    /\ pc = "done"
    /\ entry = "view"
    /\ df.tag = "DataFrame"
    /\ raised = "NotImplementedError"

\* C10: assess.data() returns None only when access.data() returned None or
\* an assessment statement raised; otherwise it returns a table, and a
\* table whose rows are all null comes back as a table with zero rows.
C10_NoneOnlyOnFailure ==
    AssessDone =>
        /\ raised = NoExc
        /\ ret = None <=> (accessRet = None \/ Failed(AssessSteps))
        /\ ret # None => ret.tag = "DataFrame"
        /\ (accessRet.tag = "DataFrame" /\ ~Failed(AssessSteps)
              /\ \A i \in 1..Len(accessRet.rows) : AllNull(accessRet.rows[i]))
            => ret = DataFrame(<<>>)

C10_Witness ==
    /\ AssessDone
    /\ accessRet.tag = "DataFrame"
    /\ Len(accessRet.rows) = 2
    /\ \A i \in 1..Len(accessRet.rows) : AllNull(accessRet.rows[i])
    /\ ret = DataFrame(<<>>)

\* ------------------------------------------------- plot_city_map claims
PlotCalled == entry = "plot_city_map"
PlotDone == pc = "done" /\ PlotCalled

\* C4: when a provider call raises, plot_city_map returns normally and
\* prints a diagnostic with the place name, latitude, longitude and box size
\* of the call.
C4_FailureReported ==
    /\ PlotCalled => raised = NoExc
    /\ (PlotDone /\ Failed(FetchSteps)) =>
          /\ ret = None
          /\ \E i \in 1..Len(out) :
                /\ Len(out[i].vals) = 4
                /\ out[i].vals = <<args.place_name, args.latitude, args.longitude,
                                   args.box_size_km>>

C4_Witness ==
    /\ PlotDone
    /\ args.place_name = "Nowhere"
    /\ Failed({"geocode_to_gdf"})
    /\ Len(out) = 2
    /\ raised = NoExc

\* position of a recorded statement in plot_city_map
Pos(op) == IF op = "bbox" THEN 0 ELSE IndexOf(op)
FetchEvents == {i \in 1..Len(trace) : trace[i].op \in FetchSteps}

XWithin(x, y) == FLeq(XAbs(x), y)

\* the `within floating-point tolerance` of an extent of box_size_km: the
\* rounding of the two edges and of the divisions
Tolerance(a, b, size) ==
    XAdd(XMul(F111, XAdd(Ulp(a), Ulp(b))), XMul(XAbs(size), <<1, 2 - Prec>>))

NonPolar(latitude) == FLess(Fl(-90, 0), latitude) /\ FLess(latitude, Fl(90, 0))

LatExtentOK ==
    XWithin(XSub(XMul(XSub(bbox.north, bbox.south), F111), args.box_size_km),
            Tolerance(bbox.north, bbox.south, args.box_size_km))
LonExtentOK ==
    XWithin(XSub(XMul(XMul(XSub(bbox.east, bbox.west), F111), CosRadians(args.latitude)),
                 args.box_size_km),
            Tolerance(bbox.east, bbox.west, args.box_size_km))

\* C5: in both copies of plot_city_map, for non-polar latitude,
\* (north - south) * 111 and (east - west) * 111 * cos(radians(latitude))
\* equal box_size_km (within floating-point tolerance).
C5_CosineCorrected ==
    (PlotCalled /\ NonPolar(args.latitude)) => (LatExtentOK /\ LonExtentOK)

\* the midpoint as Python evaluates (a + b) / 2
Mid(a, b) == FDiv(FAdd(a, b), F2)

\* C6 (as stated): (west + east) / 2 equals longitude and (south + north) / 2
\* equals latitude, exactly, for every center and box size.
C6_Original ==
    PlotCalled =>
        /\ Mid(bbox.west, bbox.east) = args.longitude
        /\ Mid(bbox.south, bbox.north) = args.latitude

\* C6 (amended): the midpoint of the box is the center up to the rounding
\* of the two edges: |west + east - 2 * longitude| <= (ulp(west) + ulp(east)) / 2
\* and likewise for south, north and latitude.
C6_CenteredUpToRounding ==
    PlotCalled =>
        /\ XWithin(XSub(XAdd(bbox.west, bbox.east), XMul(F2, args.longitude)),
                   XMul(XAdd(Ulp(bbox.west), Ulp(bbox.east)), <<1, -1>>))
        /\ XWithin(XSub(XAdd(bbox.south, bbox.north), XMul(F2, args.latitude)),
                   XMul(XAdd(Ulp(bbox.south), Ulp(bbox.north)), <<1, -1>>))

C6_Witness ==
    /\ PlotCalled
    /\ FLess(F0, args.box_size_km)
    /\ FLess(bbox.west, bbox.east)
    /\ Mid(bbox.west, bbox.east) # args.longitude

BoxQueries == {i \in 1..Len(queries) : queries[i].fn # "geocode_to_gdf"}

\* C7 (as stated): every bounding box passed to the fetcher has west < east
\* and south < north, whatever latitude, longitude and box size are passed.
C7_Original ==
    \A i \in BoxQueries :
        /\ FLess(queries[i].bbox.west, queries[i].bbox.east)
        /\ FLess(queries[i].bbox.south, queries[i].bbox.north)

HalfLat == FDiv(lat_degree_size(args.box_size_km), F2)
HalfLon == FDiv(lon_degree_size(args.module, args.latitude, args.box_size_km), F2)

\* C7 (amended): for box_size_km > 0 and, in assess.py, cos(radians(latitude))
\* > 0, every box passed to the fetcher has west <= east and south <= north,
\* strictly on an axis whose half-size is at least the float spacing at the
\* center coordinate.
C7_OrderedForPositiveSize ==
    \A i \in BoxQueries :
        (/\ FLess(F0, args.box_size_km)
         /\ args.module = "access" \/ FLess(F0, CosRadians(args.latitude))) =>
            /\ FLeq(queries[i].bbox.west, queries[i].bbox.east)
            /\ FLeq(queries[i].bbox.south, queries[i].bbox.north)
            /\ FLeq(Ulp(args.longitude), HalfLon) =>
                  FLess(queries[i].bbox.west, queries[i].bbox.east)
            /\ FLeq(Ulp(args.latitude), HalfLat) =>
                  FLess(queries[i].bbox.south, queries[i].bbox.north)

C7_Witness ==
    /\ PlotCalled
    /\ args.module = "assess"
    /\ Len(queries) >= 3
    /\ FLess(F0, args.box_size_km)
    /\ FLess(F0, CosRadians(args.latitude))
    /\ FLess(bbox.west, bbox.east)
    /\ FLess(bbox.south, bbox.north)
    /\ queries[3].bbox = bbox
====
